---- MODULE Spec2Model ----
(***************************************************************************)
(* Frame buffer pool of the ahab MPEG decoder (src/framebuffer.cpp).       *)
(*                                                                         *)
(* The model follows the code mutex by mutex.  One step of a thread is     *)
(* one mutex acquisition together with the code that runs up to the next   *)
(* acquisition (or condition wait); mutexes released by scope exit are     *)
(* released in the step that ends the scope.  A list mutex is only ever    *)
(* taken inside a BufferPool method that already holds the pool mutex and  *)
(* is released before that method does anything else, so a FrameQueue      *)
(* operation is part of the step that holds the pool mutex.                *)
(***************************************************************************)
EXTENDS Naturals, Sequences, FiniteSets

(* ---- bounds ---- *)
NumFrames == 2
NumWorkers == 3
NumWaiters == 2
MaxHold == 2
MaxQueue == 3

(* ---- the universe ---- *)
NULL == 0
Frames == 1..NumFrames
Handles == 1..NumWorkers
Workers == 1..NumWorkers
Waiters == (NumWorkers + 1)..(NumWorkers + NumWaiters)
Threads == Workers \cup Waiters
Queues == {"free", "freeable"}

\* the handle a thread works on: each worker has its own handle, the waiting
\* threads all call wait_rendered on the first handle
hof == [t \in Threads |-> IF t \in Workers THEN t ELSE 1]

VARIABLES
  first, last,      \* FrameQueue::first / last, per queue of the pool
  prev, next,       \* Frame::prev / next
  state,            \* Frame::state
  handle,           \* Frame::handle (NULL or the owning FrameHandle)
  frame,            \* FrameHandle::frame (NULL or the bound Frame)
  locks,            \* FrameHandle::locks
  mutex_h,          \* FrameHandle::mutex: NULL or the thread holding it
  mutex_f,          \* Frame::mutex
  mutex_p,          \* BufferPool::mutex
  pc,               \* where each thread stands
  local,            \* get_free_frame's first_freeable of each thread
  victim,           \* the handle Frame::free is detaching, per thread
  held,             \* acquires a worker has not yet released
  result,           \* how a thread's last acquire or wait ended, until its next call
  fault             \* the failed assertion that stopped the process, or "none"

vars == << first, last, prev, next, state, handle, frame, locks,
           mutex_h, mutex_f, mutex_p, pc, local, victim, held, result, fault >>

lists == << first, last, prev, next >>
mutexes == << mutex_h, mutex_f, mutex_p >>

(* ---- FrameQueue: the intrusive list, on a record of the four link fields ---- *)
Q == [first |-> first, last |-> last, prev |-> prev, next |-> next]

\* FrameQueue::add that inserts at the head
FrameQueue_add_at_head(L, q, f) ==
  LET l == L.first[q]
      p1 == [L.prev EXCEPT ![f] = NULL]
      n1 == [L.next EXCEPT ![f] = l]
  IN IF l # NULL
       THEN [first |-> [L.first EXCEPT ![q] = f],
             last  |-> L.last,
             prev  |-> [p1 EXCEPT ![l] = f],
             next  |-> n1]
       ELSE [first |-> [L.first EXCEPT ![q] = f],
             last  |-> [L.last EXCEPT ![q] = f],
             prev  |-> p1,
             next  |-> n1]

FrameQueue_add(L, q, f) ==
  LET l == L.last[q]
      p1 == [L.prev EXCEPT ![f] = l]
      n1 == [L.next EXCEPT ![f] = NULL]
  IN IF l # NULL
       THEN [first |-> L.first,
             last  |-> [L.last EXCEPT ![q] = f],
             prev  |-> p1,
             next  |-> [n1 EXCEPT ![l] = f]]
       ELSE [first |-> [L.first EXCEPT ![q] = f],
             last  |-> [L.last EXCEPT ![q] = f],
             prev  |-> p1,
             next  |-> n1]

\* the list after remove(); the frame it returns is L.first[q]
FrameQueue_remove(L, q) ==
  LET rv == L.first[q] IN
  IF rv = NULL THEN L
  ELSE LET nf == L.next[rv]
           p1 == IF nf # NULL THEN [L.prev EXCEPT ![nf] = NULL] ELSE L.prev
       IN [first |-> [L.first EXCEPT ![q] = nf],
           last  |-> IF nf # NULL THEN L.last ELSE [L.last EXCEPT ![q] = NULL],
           prev  |-> [p1 EXCEPT ![rv] = NULL],
           next  |-> [L.next EXCEPT ![rv] = NULL]]

FrameQueue_remove_specific(L, q, f) ==
  LET fp == L.prev[f]
      fn == L.next[f]
      n1 == IF fp # NULL THEN [L.next EXCEPT ![fp] = fn] ELSE L.next
      f1 == IF fp # NULL THEN L.first ELSE [L.first EXCEPT ![q] = fn]
      fn2 == n1[f]
      p1 == IF fn2 # NULL THEN [L.prev EXCEPT ![fn2] = L.prev[f]] ELSE L.prev
      l1 == IF fn2 # NULL THEN L.last ELSE [L.last EXCEPT ![q] = L.prev[f]]
  IN [first |-> f1,
      last  |-> l1,
      prev  |-> [p1 EXCEPT ![f] = NULL],
      next  |-> [n1 EXCEPT ![f] = NULL]]

SetLists(L) ==
  /\ first' = L.first
  /\ last' = L.last
  /\ prev' = L.prev
  /\ next' = L.next

(* ---- condition variables: pthread_cond_broadcast moves every waiter on ---- *)
BroadcastHandle(p, h) ==
  [u \in Threads |-> IF p[u] = "hw_wait" /\ hof[u] = h THEN "hw_woken" ELSE p[u]]

BroadcastFrame(p, f) ==
  [u \in Threads |-> IF p[u] = "fw_wait" /\ frame[hof[u]] = f THEN "fw_woken" ELSE p[u]]

(* ---- construction: BufferPool, Frame and FrameHandle constructors ---- *)
RECURSIVE Construct(_, _)
Construct(L, i) ==
  IF i > NumFrames THEN L ELSE Construct(FrameQueue_add(L, "free", i), i + 1)

EmptyLists ==
  [first |-> [q \in Queues |-> NULL], last |-> [q \in Queues |-> NULL],
   prev |-> [f \in Frames |-> NULL], next |-> [f \in Frames |-> NULL]]

Init ==
  /\ LET L == Construct(EmptyLists, 1) IN
       /\ first = L.first /\ last = L.last /\ prev = L.prev /\ next = L.next
  /\ state = [f \in Frames |-> "FREE"]
  /\ handle = [f \in Frames |-> NULL]
  /\ frame = [h \in Handles |-> NULL]
  /\ locks = [h \in Handles |-> 0]
  /\ mutex_h = [h \in Handles |-> NULL]
  /\ mutex_f = [f \in Frames |-> NULL]
  /\ mutex_p = NULL
  /\ pc = [t \in Threads |-> "idle"]
  /\ local = [t \in Threads |-> NULL]
  /\ victim = [t \in Threads |-> NULL]
  /\ held = [t \in Threads |-> 0]
  /\ result = [t \in Threads |-> "none"]
  /\ fault = "none"

\* a failed ahabassert: nothing else changes, the process stops
Fail(what) ==
  /\ fault' = what
  /\ UNCHANGED << first, last, prev, next, state, handle, frame, locks,
                  mutex_h, mutex_f, mutex_p, pc, local, victim, held, result >>

(* ---- FrameHandle::increment_lockcount (acquire) ---- *)

\* increment_lockcount that asks the pool for a frame even when one is bound
increment_lockcount_forgets_binding(t) ==
  LET h == hof[t] IN
  /\ fault = "none" /\ t \in Workers
  /\ pc[t] = "idle" /\ held[t] < MaxHold
  /\ mutex_h[h] = NULL
  /\ IF locks[h] # 0
       THEN /\ locks' = [locks EXCEPT ![h] = @ + 1]
            /\ held' = [held EXCEPT ![t] = @ + 1]
            /\ result' = [result EXCEPT ![t] = "counted"]
            /\ UNCHANGED << lists, state, handle, frame, mutexes, pc,
                            local, victim, fault >>
       ELSE /\ mutex_h' = [mutex_h EXCEPT ![h] = t]
            /\ pc' = [pc EXCEPT ![t] = "get_free_frame"]
            /\ result' = [result EXCEPT ![t] = "none"]
            /\ UNCHANGED << lists, state, handle, frame, locks, mutex_f,
                            mutex_p, local, victim, held, fault >>

\* lines 207-217: take the handle mutex and choose the path
increment_lockcount(t) ==
  LET h == hof[t] IN
  /\ fault = "none" /\ t \in Workers
  /\ pc[t] = "idle" /\ held[t] < MaxHold
  /\ mutex_h[h] = NULL
  /\ IF frame[h] # NULL
       THEN IF locks[h] = 0
              THEN IF state[frame[h]] # "FREEABLE"
                     THEN Fail("increment_lockcount: state == FREEABLE")
                     ELSE /\ mutex_h' = [mutex_h EXCEPT ![h] = t]
                          /\ pc' = [pc EXCEPT ![t] = "remove_from_freeable"]
                          /\ result' = [result EXCEPT ![t] = "none"]
                          /\ UNCHANGED << lists, state, handle, frame, locks, mutex_f,
                                          mutex_p, local, victim, held, fault >>
              ELSE /\ locks' = [locks EXCEPT ![h] = @ + 1]
                   /\ held' = [held EXCEPT ![t] = @ + 1]
                   /\ result' = [result EXCEPT ![t] = "counted"]
                   /\ UNCHANGED << lists, state, handle, frame, mutexes, pc,
                                   local, victim, fault >>
       ELSE IF locks[h] # 0
              THEN Fail("increment_lockcount: locks == 0")
              ELSE /\ mutex_h' = [mutex_h EXCEPT ![h] = t]
                   /\ pc' = [pc EXCEPT ![t] = "get_free_frame"]
                   /\ result' = [result EXCEPT ![t] = "none"]
                   /\ UNCHANGED << lists, state, handle, frame, locks, mutex_f,
                                   mutex_p, local, victim, held, fault >>

\* remove_from_freeable that leaves the frame on the list
remove_from_freeable_skip(t) ==
  /\ fault = "none"
  /\ pc[t] = "remove_from_freeable"
  /\ mutex_p = NULL
  /\ pc' = [pc EXCEPT ![t] = "relock"]
  /\ UNCHANGED << lists, state, handle, frame, locks, mutexes, local, victim,
                  held, result, fault >>


\* lines 212, 277-281: BufferPool::remove_from_freeable under the pool mutex
remove_from_freeable(t) ==
  /\ fault = "none"
  /\ pc[t] = "remove_from_freeable"
  /\ mutex_p = NULL
  /\ SetLists(FrameQueue_remove_specific(Q, "freeable", frame[hof[t]]))
  /\ pc' = [pc EXCEPT ![t] = "relock"]
  /\ UNCHANGED << state, handle, frame, locks, mutexes, local, victim,
                  held, result, fault >>

\* relock that leaves the state FREEABLE
relock_keeps_state(t) ==
  LET h == hof[t]
      f == frame[h]
  IN
  /\ fault = "none"
  /\ pc[t] = "relock"
  /\ mutex_f[f] = NULL
  /\ locks' = [locks EXCEPT ![h] = @ + 1]
  /\ mutex_h' = [mutex_h EXCEPT ![h] = NULL]
  /\ pc' = BroadcastFrame([pc EXCEPT ![t] = "idle"], f)
  /\ held' = [held EXCEPT ![t] = @ + 1]
  /\ result' = [result EXCEPT ![t] = "resurrected"]
  /\ UNCHANGED << lists, state, handle, frame, mutex_f, mutex_p, local,
                  victim, fault >>


\* lines 213-215, 152-159: Frame::relock, then locks++ and return
relock(t) ==
  LET h == hof[t]
      f == frame[h]
  IN
  /\ fault = "none"
  /\ pc[t] = "relock"
  /\ mutex_f[f] = NULL
  /\ IF state[f] # "FREEABLE"
       THEN Fail("relock: state == FREEABLE")
       ELSE /\ state' = [state EXCEPT ![f] = "RENDERED"]
            /\ locks' = [locks EXCEPT ![h] = @ + 1]
            /\ mutex_h' = [mutex_h EXCEPT ![h] = NULL]
            /\ pc' = BroadcastFrame([pc EXCEPT ![t] = "idle"], f)
            /\ held' = [held EXCEPT ![t] = @ + 1]
            /\ result' = [result EXCEPT ![t] = "resurrected"]
            /\ UNCHANGED << lists, handle, frame, mutex_f, mutex_p, local,
                            victim, fault >>

\* get_free_frame that throws OutOfFrames as soon as the free list is empty
get_free_frame_no_evict(t) ==
  LET h == hof[t]
      first_free == first["free"]
  IN
  /\ fault = "none"
  /\ pc[t] = "get_free_frame"
  /\ mutex_p = NULL
  /\ IF first_free # NULL
       THEN /\ SetLists(FrameQueue_remove(Q, "free"))
            /\ frame' = [frame EXCEPT ![h] = first_free]
            /\ pc' = [pc EXCEPT ![t] = "lock"]
            /\ UNCHANGED << state, handle, locks, mutexes, local, victim,
                            held, result, fault >>
       ELSE /\ mutex_h' = [mutex_h EXCEPT ![h] = NULL]
            /\ pc' = [pc EXCEPT ![t] = "idle"]
            /\ result' = [result EXCEPT ![t] = "OutOfFrames"]
            /\ UNCHANGED << lists, state, handle, frame, locks, mutex_f,
                            mutex_p, local, victim, held, fault >>


\* get_free_frame that gives the pool mutex back before it calls Frame::free
get_free_frame_unlocked_evict(t) ==
  LET h == hof[t]
      first_free == first["free"]
      first_freeable == first["freeable"]
  IN
  /\ fault = "none"
  /\ pc[t] = "get_free_frame"
  /\ mutex_p = NULL
  /\ IF first_free # NULL
       THEN /\ SetLists(FrameQueue_remove(Q, "free"))
            /\ frame' = [frame EXCEPT ![h] = first_free]
            /\ pc' = [pc EXCEPT ![t] = "lock"]
            /\ UNCHANGED << state, handle, locks, mutexes, local, victim,
                            held, result, fault >>
       ELSE IF first_freeable = NULL
              THEN /\ mutex_h' = [mutex_h EXCEPT ![h] = NULL]
                   /\ pc' = [pc EXCEPT ![t] = "idle"]
                   /\ result' = [result EXCEPT ![t] = "OutOfFrames"]
                   /\ UNCHANGED << lists, state, handle, frame, locks, mutex_f,
                                   mutex_p, local, victim, held, fault >>
              ELSE /\ SetLists(FrameQueue_remove(Q, "freeable"))
                   /\ local' = [local EXCEPT ![t] = first_freeable]
                   /\ pc' = [pc EXCEPT ![t] = "free"]
                   /\ UNCHANGED << state, handle, frame, locks, mutexes,
                                   victim, held, result, fault >>

\* lines 218, 246-259: BufferPool::get_free_frame up to the call of Frame::free
get_free_frame(t) ==
  LET h == hof[t]
      first_free == first["free"]
      first_freeable == first["freeable"]
  IN
  /\ fault = "none"
  /\ pc[t] = "get_free_frame"
  /\ mutex_p = NULL
  /\ IF first_free # NULL
       THEN /\ SetLists(FrameQueue_remove(Q, "free"))
            /\ frame' = [frame EXCEPT ![h] = first_free]
            /\ pc' = [pc EXCEPT ![t] = "lock"]
            /\ UNCHANGED << state, handle, locks, mutexes, local, victim,
                            held, result, fault >>
       ELSE IF first_freeable = NULL
              THEN \* throw OutOfFrames: both MutexLock scopes unwind
                   /\ mutex_h' = [mutex_h EXCEPT ![h] = NULL]
                   /\ pc' = [pc EXCEPT ![t] = "idle"]
                   /\ result' = [result EXCEPT ![t] = "OutOfFrames"]
                   /\ UNCHANGED << lists, state, handle, frame, locks, mutex_f,
                                   mutex_p, local, victim, held, fault >>
              ELSE /\ SetLists(FrameQueue_remove(Q, "freeable"))
                   /\ local' = [local EXCEPT ![t] = first_freeable]
                   /\ mutex_p' = t
                   /\ pc' = [pc EXCEPT ![t] = "free"]
                   /\ UNCHANGED << state, handle, frame, locks, mutex_h, mutex_f,
                                   victim, held, result, fault >>

\* Frame::free without the ahabassert( state == FREEABLE )
Frame_free_unchecked(t) ==
  LET f == local[t] IN
  /\ fault = "none"
  /\ pc[t] = "free"
  /\ mutex_f[f] = NULL
  /\ IF handle[f] = NULL
       THEN Fail("free: handle is NULL")
       ELSE /\ mutex_f' = [mutex_f EXCEPT ![f] = t]
            /\ victim' = [victim EXCEPT ![t] = handle[f]]
            /\ pc' = [pc EXCEPT ![t] = "set_frame"]
            /\ UNCHANGED << lists, state, handle, frame, locks, mutex_h,
                            mutex_p, local, held, result, fault >>

\* lines 260, 179-184: Frame::free takes the frame mutex and checks the state
Frame_free(t) ==
  LET f == local[t] IN
  /\ fault = "none"
  /\ pc[t] = "free"
  /\ mutex_f[f] = NULL
  /\ IF state[f] # "FREEABLE"
       THEN Fail("free: state == FREEABLE")
       ELSE IF handle[f] = NULL
              THEN Fail("free: handle is NULL")
              ELSE /\ mutex_f' = [mutex_f EXCEPT ![f] = t]
                   /\ victim' = [victim EXCEPT ![t] = handle[f]]
                   /\ pc' = [pc EXCEPT ![t] = "set_frame"]
                   /\ UNCHANGED << lists, state, handle, frame, locks, mutex_h,
                                   mutex_p, local, held, result, fault >>

\* Frame::free that does not call handle->set_frame( NULL )
set_frame_keep_binding(t) ==
  LET f == local[t]
      v == victim[t]
  IN
  /\ fault = "none"
  /\ pc[t] = "set_frame"
  /\ mutex_h[v] = NULL
  /\ frame' = [frame EXCEPT ![hof[t]] = f]
  /\ handle' = [handle EXCEPT ![f] = NULL]
  /\ state' = [state EXCEPT ![f] = "FREE"]
  /\ mutex_f' = [mutex_f EXCEPT ![f] = NULL]
  /\ mutex_p' = NULL
  /\ pc' = [pc EXCEPT ![t] = "lock"]
  /\ UNCHANGED << lists, locks, mutex_h, local, victim, held, result, fault >>


\* set_frame that does not take the evicted handle's mutex
set_frame_without_mutex(t) ==
  LET f == local[t]
      v == victim[t]
  IN
  /\ fault = "none"
  /\ pc[t] = "set_frame"
  /\ IF locks[v] # 0
       THEN Fail("set_frame: locks == 0")
       ELSE /\ frame' = [[frame EXCEPT ![v] = NULL] EXCEPT ![hof[t]] = f]
            /\ handle' = [handle EXCEPT ![f] = NULL]
            /\ state' = [state EXCEPT ![f] = "FREE"]
            /\ mutex_f' = [mutex_f EXCEPT ![f] = NULL]
            /\ mutex_p' = NULL
            /\ pc' = BroadcastHandle([pc EXCEPT ![t] = "lock"], v)
            /\ UNCHANGED << lists, locks, mutex_h, local, victim, held,
                            result, fault >>

\* lines 184-186, 283-289, 262, 218: FrameHandle::set_frame( NULL ) on the evicted
\* handle, the rest of Frame::free, return from get_free_frame, frame = ...
set_frame(t) ==
  LET f == local[t]
      v == victim[t]
  IN
  /\ fault = "none"
  /\ pc[t] = "set_frame"
  /\ mutex_h[v] = NULL
  /\ IF locks[v] # 0
       THEN Fail("set_frame: locks == 0")
       ELSE /\ frame' = [[frame EXCEPT ![v] = NULL] EXCEPT ![hof[t]] = f]
            /\ handle' = [handle EXCEPT ![f] = NULL]
            /\ state' = [state EXCEPT ![f] = "FREE"]
            /\ mutex_f' = [mutex_f EXCEPT ![f] = NULL]
            /\ mutex_p' = NULL
            /\ pc' = BroadcastHandle([pc EXCEPT ![t] = "lock"], v)
            /\ UNCHANGED << lists, locks, mutex_h, local, victim, held,
                            result, fault >>

\* lines 219-223, 127-141: Frame::lock, then locks++, broadcast and return
Frame_lock(t) ==
  LET h == hof[t]
      f == frame[h]
  IN
  /\ fault = "none"
  /\ pc[t] = "lock"
  /\ mutex_f[f] = NULL
  /\ IF handle[f] # NULL
       THEN Fail("lock: handle == NULL")
       ELSE IF state[f] # "FREE"
              THEN Fail("lock: state == FREE")
              ELSE /\ handle' = [handle EXCEPT ![f] = h]
                   /\ state' = [state EXCEPT ![f] = "LOCKED"]
                   /\ locks' = [locks EXCEPT ![h] = @ + 1]
                   /\ mutex_h' = [mutex_h EXCEPT ![h] = NULL]
                   /\ pc' = BroadcastHandle([pc EXCEPT ![t] = "idle"], h)
                   /\ held' = [held EXCEPT ![t] = @ + 1]
                   /\ result' = [result EXCEPT ![t] =
                                   IF local[t] # NULL THEN "evicted" ELSE "fresh"]
                   /\ local' = [local EXCEPT ![t] = NULL]
                   /\ victim' = [victim EXCEPT ![t] = NULL]
                   /\ UNCHANGED << lists, frame, mutex_f, mutex_p, fault >>

(* ---- FrameHandle::decrement_lockcount (release) ---- *)

\* lines 228-233, 236, 240-242: take the handle mutex, locks--, read the state
decrement_lockcount(t) ==
  LET h == hof[t] IN
  /\ fault = "none" /\ t \in Workers
  /\ pc[t] = "idle" /\ held[t] > 0
  /\ mutex_h[h] = NULL
  /\ IF locks[h] = 0
       THEN Fail("decrement_lockcount: locks > 0")
       ELSE /\ locks' = [locks EXCEPT ![h] = @ - 1]
            /\ IF locks[h] > 1
                 THEN /\ held' = [held EXCEPT ![t] = @ - 1]
                      /\ result' = [result EXCEPT ![t] = "none"]
                      /\ UNCHANGED << mutex_h, pc, fault >>
                 ELSE IF frame[h] # NULL /\ state[frame[h]] \in {"RENDERED", "LOCKED"}
                        THEN /\ mutex_h' = [mutex_h EXCEPT ![h] = t]
                             /\ pc' = [pc EXCEPT ![t] =
                                         IF state[frame[h]] = "RENDERED"
                                           THEN "make_freeable" ELSE "make_free"]
                             /\ result' = [result EXCEPT ![t] = "none"]
                             /\ UNCHANGED << held, fault >>
                        ELSE \* throw AhabException (or no frame to look at)
                             /\ fault' = "decrement_lockcount: AhabException"
                             /\ UNCHANGED << mutex_h, pc, held, result >>
            /\ UNCHANGED << lists, state, handle, frame, mutex_f, mutex_p, local,
                            victim >>

\* make_freeable that appends the frame to the free list
make_freeable_wrong_list(t) ==
  /\ fault = "none"
  /\ pc[t] = "make_freeable"
  /\ mutex_p = NULL
  /\ SetLists(FrameQueue_add(Q, "free", frame[hof[t]]))
  /\ pc' = [pc EXCEPT ![t] = "set_freeable"]
  /\ UNCHANGED << state, handle, frame, locks, mutexes, local, victim,
                  held, result, fault >>

\* lines 234, 265-269: BufferPool::make_freeable under the pool mutex
make_freeable(t) ==
  /\ fault = "none"
  /\ pc[t] = "make_freeable"
  /\ mutex_p = NULL
  /\ SetLists(FrameQueue_add(Q, "freeable", frame[hof[t]]))
  /\ pc' = [pc EXCEPT ![t] = "set_freeable"]
  /\ UNCHANGED << state, handle, frame, locks, mutexes, local, victim,
                  held, result, fault >>

\* set_freeable that also clears the handle's frame pointer
set_freeable_drops_binding(t) ==
  LET h == hof[t]
      f == frame[h]
  IN
  /\ fault = "none"
  /\ pc[t] = "set_freeable"
  /\ mutex_f[f] = NULL
  /\ state' = [state EXCEPT ![f] = "FREEABLE"]
  /\ frame' = [frame EXCEPT ![h] = NULL]
  /\ mutex_h' = [mutex_h EXCEPT ![h] = NULL]
  /\ pc' = [pc EXCEPT ![t] = "idle"]
  /\ held' = [held EXCEPT ![t] = @ - 1]
  /\ UNCHANGED << lists, handle, locks, mutex_f, mutex_p,
                  local, victim, result, fault >>

\* lines 235, 161-167: Frame::set_freeable, then return
set_freeable(t) ==
  LET h == hof[t]
      f == frame[h]
  IN
  /\ fault = "none"
  /\ pc[t] = "set_freeable"
  /\ mutex_f[f] = NULL
  /\ IF state[f] # "RENDERED"
       THEN Fail("set_freeable: state == RENDERED")
       ELSE /\ state' = [state EXCEPT ![f] = "FREEABLE"]
            /\ mutex_h' = [mutex_h EXCEPT ![h] = NULL]
            /\ pc' = [pc EXCEPT ![t] = "idle"]
            /\ held' = [held EXCEPT ![t] = @ - 1]
            /\ UNCHANGED << lists, handle, frame, locks, mutex_f, mutex_p,
                            local, victim, result, fault >>

\* make_free that drops the frame instead of appending it
make_free_drop(t) ==
  /\ fault = "none"
  /\ pc[t] = "make_free"
  /\ mutex_p = NULL
  /\ pc' = [pc EXCEPT ![t] = "free_locked"]
  /\ UNCHANGED << lists, state, handle, frame, locks, mutexes, local, victim,
                  held, result, fault >>


\* lines 237, 271-275: BufferPool::make_free under the pool mutex
make_free(t) ==
  /\ fault = "none"
  /\ pc[t] = "make_free"
  /\ mutex_p = NULL
  /\ SetLists(FrameQueue_add(Q, "free", frame[hof[t]]))
  /\ pc' = [pc EXCEPT ![t] = "free_locked"]
  /\ UNCHANGED << state, handle, frame, locks, mutexes, local, victim,
                  held, result, fault >>

\* free_locked without the frame = NULL of line 239
free_locked_keeps_frame(t) ==
  LET h == hof[t]
      f == frame[h]
  IN
  /\ fault = "none"
  /\ pc[t] = "free_locked"
  /\ mutex_f[f] = NULL
  /\ handle' = [handle EXCEPT ![f] = NULL]
  /\ state' = [state EXCEPT ![f] = "FREE"]
  /\ mutex_h' = [mutex_h EXCEPT ![h] = NULL]
  /\ pc' = [pc EXCEPT ![t] = "idle"]
  /\ held' = [held EXCEPT ![t] = @ - 1]
  /\ UNCHANGED << lists, frame, locks, mutex_f, mutex_p, local, victim,
                  result, fault >>

\* lines 238-239, 169-177: Frame::free_locked, frame = NULL, then return
free_locked(t) ==
  LET h == hof[t]
      f == frame[h]
  IN
  /\ fault = "none"
  /\ pc[t] = "free_locked"
  /\ mutex_f[f] = NULL
  /\ IF state[f] # "LOCKED"
       THEN Fail("free_locked: state == LOCKED")
       ELSE /\ handle' = [handle EXCEPT ![f] = NULL]
            /\ state' = [state EXCEPT ![f] = "FREE"]
            /\ frame' = [frame EXCEPT ![h] = NULL]
            /\ mutex_h' = [mutex_h EXCEPT ![h] = NULL]
            /\ pc' = [pc EXCEPT ![t] = "idle"]
            /\ held' = [held EXCEPT ![t] = @ - 1]
            /\ UNCHANGED << lists, locks, mutex_f, mutex_p, local, victim,
                            result, fault >>

(* ---- Frame::set_rendered, called by the worker that holds the frame ---- *)


\* set_rendered without the pthread_cond_broadcast of line 149
set_rendered_no_broadcast(t) ==
  LET h == hof[t]
      f == frame[h]
  IN
  /\ fault = "none" /\ t \in Workers
  /\ pc[t] = "idle" /\ held[t] > 0
  /\ f # NULL /\ state[f] = "LOCKED"
  /\ mutex_f[f] = NULL
  /\ state' = [state EXCEPT ![f] = "RENDERED"]
  /\ result' = [result EXCEPT ![t] = "none"]
  /\ UNCHANGED << lists, handle, frame, locks, mutexes, pc, local, victim, held, fault >>

\* lines 143-150; the caller holds a lock on its handle and its frame is LOCKED
set_rendered(t) ==
  LET h == hof[t]
      f == frame[h]
  IN
  /\ fault = "none" /\ t \in Workers
  /\ pc[t] = "idle" /\ held[t] > 0
  /\ f # NULL /\ state[f] = "LOCKED"
  /\ mutex_f[f] = NULL
  /\ state' = [state EXCEPT ![f] = "RENDERED"]
  /\ pc' = BroadcastFrame(pc, f)
  /\ result' = [result EXCEPT ![t] = "none"]
  /\ UNCHANGED << lists, handle, frame, locks, mutexes, local, victim, held, fault >>

\* lines 143-147: Frame::set_rendered called a second time by the holder of the
\* frame: the assertion state == LOCKED fails
set_rendered_again(t) ==
  LET h == hof[t]
      f == frame[h]
  IN
  /\ fault = "none" /\ t \in Workers
  /\ pc[t] = "idle" /\ held[t] > 0
  /\ f # NULL /\ state[f] # "LOCKED"
  /\ mutex_f[f] = NULL
  /\ Fail("set_rendered: state == LOCKED")

(* ---- FrameHandle::wait_rendered and Frame::wait_rendered ---- *)

\* Frame::wait_rendered that waits only while the frame is LOCKED
Frame_wait_rendered_while_locked(t, p) ==
  LET h == hof[t]
      f == frame[h]
  IN IF state[f] # "LOCKED"
       THEN /\ mutex_h' = [mutex_h EXCEPT ![h] = NULL]
            /\ pc' = [p EXCEPT ![t] = "idle"]
            /\ result' = [result EXCEPT ![t] = "rendered"]
       ELSE /\ mutex_h' = [mutex_h EXCEPT ![h] = t]
            /\ pc' = [p EXCEPT ![t] = "fw_wait"]
            /\ result' = [result EXCEPT ![t] = "none"]


\* the nested Frame::wait_rendered of lines 308, 291-297, entered with the handle
\* mutex held: return if RENDERED, else wait on the frame's activity
Frame_wait_rendered(t, p) ==
  LET h == hof[t]
      f == frame[h]
  IN IF state[f] = "RENDERED"
       THEN /\ mutex_h' = [mutex_h EXCEPT ![h] = NULL]
            /\ pc' = [p EXCEPT ![t] = "idle"]
            /\ result' = [result EXCEPT ![t] = "rendered"]
       ELSE /\ mutex_h' = [mutex_h EXCEPT ![h] = t]
            /\ pc' = [p EXCEPT ![t] = "fw_wait"]
            /\ result' = [result EXCEPT ![t] = "none"]

\* lines 301-305: take the handle mutex; wait on the handle's activity while no
\* frame is bound; with a frame, go on to the nested wait still holding the mutex
wait_rendered(t) ==
  /\ fault = "none" /\ t \in Waiters
  /\ pc[t] = "idle"
  /\ mutex_h[hof[t]] = NULL
  /\ IF frame[hof[t]] = NULL
       THEN /\ pc' = [pc EXCEPT ![t] = "hw_wait"]
            /\ UNCHANGED mutex_h
       ELSE /\ mutex_h' = [mutex_h EXCEPT ![hof[t]] = t]
            /\ pc' = [pc EXCEPT ![t] = "fw_enter"]
  /\ result' = [result EXCEPT ![t] = "none"]
  /\ UNCHANGED << lists, state, handle, frame, locks, mutex_f, mutex_p, local,
                  victim, held, fault >>

\* lines 303-305: woken on the handle's activity, the waiter retakes the handle
\* mutex and tests frame again
wait_rendered_wake(t) ==
  LET h == hof[t] IN
  /\ fault = "none"
  /\ pc[t] = "hw_woken"
  /\ mutex_h[h] = NULL
  /\ IF frame[h] = NULL
       THEN /\ pc' = [pc EXCEPT ![t] = "hw_wait"]
            /\ UNCHANGED mutex_h
       ELSE /\ mutex_h' = [mutex_h EXCEPT ![h] = t]
            /\ pc' = [pc EXCEPT ![t] = "fw_enter"]
  /\ UNCHANGED << lists, state, handle, frame, locks, mutex_f, mutex_p,
                  local, victim, held, result, fault >>

\* lines 308, 293-297: Frame::wait_rendered takes the frame mutex (first entry, or
\* woken on the frame's activity) and tests the state
Frame_wait_rendered_step(t) ==
  /\ fault = "none"
  /\ pc[t] \in {"fw_enter", "fw_woken"}
  /\ mutex_f[frame[hof[t]]] = NULL
  /\ Frame_wait_rendered(t, pc)
  /\ UNCHANGED << lists, state, handle, frame, locks, mutex_f, mutex_p,
                  local, victim, held, fault >>

\* pthread_cond_wait may return without a broadcast
spurious_wakeup(t) ==
  /\ fault = "none"
  /\ pc[t] \in {"hw_wait", "fw_wait"}
  /\ pc' = [pc EXCEPT ![t] = IF pc[t] = "hw_wait" THEN "hw_woken" ELSE "fw_woken"]
  /\ UNCHANGED << lists, state, handle, frame, locks, mutexes, local,
                  victim, held, result, fault >>

(* ---- specifications ---- *)

\* worker threads, one per handle, calling acquire / set_rendered / release
WorkerStep(t) ==
  \/ increment_lockcount(t)
  \/ remove_from_freeable(t)
  \/ relock(t)
  \/ get_free_frame(t)
  \/ Frame_free(t)
  \/ set_frame(t)
  \/ Frame_lock(t)
  \/ decrement_lockcount(t)
  \/ make_freeable(t)
  \/ set_freeable(t)
  \/ make_free(t)
  \/ free_locked(t)
  \/ set_rendered(t)

WaiterStep(t) ==
  \/ wait_rendered(t)
  \/ wait_rendered_wake(t)
  \/ Frame_wait_rendered_step(t)
  \/ spurious_wakeup(t)

Next == \E t \in Workers : WorkerStep(t)

Spec == Init /\ [][Next]_vars

\* the workers, not all of them well behaved: a worker may call set_rendered on
\* a frame that is not LOCKED
NextAny ==
  \/ \E t \in Workers : WorkerStep(t)
  \/ \E t \in Workers : set_rendered_again(t)

SpecAny == Init /\ [][NextAny]_vars

\* the workers, and threads that call FrameHandle::wait_rendered on any handle
NextW ==
  \/ \E t \in Workers : WorkerStep(t)
  \/ \E t \in Waiters : WaiterStep(t)

\* the workers' calls one at a time: a call starts only when no other call is
\* in progress
NextSeq ==
  \E t \in Workers :
    /\ \A u \in Threads \ {t} : pc[u] = "idle"
    /\ WorkerStep(t)

SpecSeq == Init /\ [][NextSeq]_vars

SpecW == Init /\ [][NextW]_vars

\* the blocking-wait scenario: workers acquire and render and keep their locks
\* (nobody releases), waiters call wait_rendered.  A thread inside a call keeps
\* running and a thread that needs a mutex gets it if it is free again and
\* again; a pthread_cond_wait need not wake without a broadcast.
NextLive ==
  \/ \E t \in Workers :
        \/ increment_lockcount(t)
        \/ get_free_frame(t)
        \/ Frame_lock(t)
        \/ set_rendered(t)
  \/ \E t \in Waiters : WaiterStep(t)

FairLive ==
  /\ \A t \in Workers : WF_vars(get_free_frame(t) \/ Frame_lock(t))
  /\ \A t \in Waiters : SF_vars(wait_rendered_wake(t))
  /\ \A t \in Waiters : SF_vars(Frame_wait_rendered_step(t))

SpecLive == Init /\ [][NextLive]_vars /\ FairLive

(* ---- what a thread is blocked on ---- *)

\* the mutex a thread must take for its next step: <<kind, which>>
Wants(t) ==
  CASE pc[t] \in {"remove_from_freeable", "get_free_frame", "make_freeable", "make_free"}
         -> << "pool", NULL >>
    [] pc[t] \in {"relock", "lock", "set_freeable", "free_locked", "fw_enter", "fw_woken"}
         -> << "frame", frame[hof[t]] >>
    [] pc[t] = "free" -> << "frame", local[t] >>
    [] pc[t] = "set_frame" -> << "handle", victim[t] >>
    [] pc[t] = "hw_woken" -> << "handle", hof[t] >>
    [] OTHER -> << "none", NULL >>

Holder(m) ==
  CASE m[1] = "pool" -> mutex_p
    [] m[1] = "frame" -> mutex_f[m[2]]
    [] m[1] = "handle" -> mutex_h[m[2]]
    [] OTHER -> NULL

\* every thread of S waits for a mutex that a thread of S holds
Deadlocked(S) ==
  /\ S # {}
  /\ \A t \in S : Wants(t)[1] # "none" /\ Holder(Wants(t)) \in S

Quiescent == fault = "none" /\ \A t \in Threads : pc[t] = "idle"

(* ---- C1 ---- *)

\* C1: under any interleaving of workers on distinct handles that use the API
\* legally, no ahabassert fails and decrement_lockcount never throws
\* AhabException (OutOfFrames is allowed).
C1_NoInvariantViolation == fault = "none"

(* ---- C2 ---- *)

\* C2: concurrent acquire and release on distinct handles never deadlock: no set
\* of threads each waits for a mutex held by another thread of the set.
C2_NoDeadlock == \A S \in SUBSET Threads : ~ Deadlocked(S)

(* ---- the pool's lists, read by following next from first ---- *)

RECURSIVE Walk(_, _)
Walk(f, n) == IF f = NULL \/ n = 0 THEN << >> ELSE << f >> \o Walk(next[f], n - 1)

\* one step more than there are frames, so that a cycle shows as a repetition
ListSeq(q) == Walk(first[q], NumFrames + 1)

OnList(q, f) == \E i \in 1..Len(ListSeq(q)) : ListSeq(q)[i] = f

Occurrences(q, f) == Cardinality({i \in 1..Len(ListSeq(q)) : ListSeq(q)[i] = f})

RentedOut == {f \in Frames : ~ OnList("free", f) /\ ~ OnList("freeable", f)}

(* ---- C3 ---- *)

\* C3: with no call in progress, for every frame: FREE iff on the free list,
\* FREEABLE iff on the freeable list, LOCKED or RENDERED iff on neither list.
C3_StateListCoherence ==
  Quiescent =>
    \A f \in Frames :
      /\ state[f] = "FREE" <=> OnList("free", f)
      /\ state[f] = "FREEABLE" <=> OnList("freeable", f)
      /\ state[f] \in {"LOCKED", "RENDERED"} <=> f \in RentedOut

\* calls have completed, one of them an eviction, and the frames are spread over
\* a list and a handle
C3_Witness ==
  /\ Quiescent
  /\ \E t \in Workers : result[t] = "evicted"
  /\ \E f, g \in Frames : state[f] = "FREEABLE" /\ state[g] \in {"LOCKED", "RENDERED"}

(* ---- C4 ---- *)

\* C4: at every instant, for every handle H: locks >= 0, and locks > 0 implies
\* H.frame is non-null, its state is LOCKED or RENDERED and its handle is H.
C4_RefcountBinding ==
  \A h \in Handles :
    /\ locks[h] >= 0
    /\ locks[h] > 0 =>
         /\ frame[h] # NULL
         /\ state[frame[h]] \in {"LOCKED", "RENDERED"}
         /\ handle[frame[h]] = h

\* a handle holds two locks on a rendered frame while another handle is in the
\* middle of a call
C4_Witness ==
  \E h \in Handles :
    /\ locks[h] = 2 /\ state[frame[h]] = "RENDERED"
    /\ \E t \in Workers : pc[t] # "idle"

(* ---- C5 ---- *)

\* C5: at any instant every frame is on exactly one of the two lists or on
\* neither; no frame is on both lists or twice on one list, and
\* |free| + |freeable| + |rented out| = num_frames (each list read from its
\* head ends at its tail).
C5_PoolPartition ==
  /\ \A f \in Frames : Occurrences("free", f) + Occurrences("freeable", f) <= 1
  /\ Len(ListSeq("free")) + Len(ListSeq("freeable")) + Cardinality(RentedOut)
       = NumFrames
  /\ \A q \in Queues :
       last[q] = IF ListSeq(q) = << >> THEN NULL ELSE ListSeq(q)[Len(ListSeq(q))]

\* an eviction in progress: the popped frame is on neither list, the other frame
\* still on freeable
C5_Witness ==
  /\ Len(ListSeq("freeable")) = 1
  /\ Cardinality(RentedOut) = 1
  /\ \E t \in Workers : pc[t] = "set_frame"

(* ---- C6 ---- *)

\* C6: once every successful acquire has been matched by a release and all calls
\* have returned, free.len + freeable.len = num_frames and every handle has
\* locks = 0.
C6_NoLeak ==
  (Quiescent /\ \A t \in Workers : held[t] = 0) =>
    /\ Len(ListSeq("free")) + Len(ListSeq("freeable")) = NumFrames
    /\ \A h \in Handles : locks[h] = 0

\* everything released: a rendered frame went to freeable and stays bound, and
\* the last acquire on an unbound handle had failed with OutOfFrames
C6_Witness ==
  /\ Quiescent
  /\ \A t \in Workers : held[t] = 0
  /\ \E h \in Handles : frame[h] # NULL /\ state[frame[h]] = "FREEABLE"
  /\ \E h \in Handles : frame[h] = NULL /\ result[h] = "OutOfFrames"

(* ---- C7 ---- *)

\* a step in which thread t returns from FrameHandle::wait_rendered
WaitReturns(t) == pc[t] \in {"fw_enter", "fw_woken"} /\ pc'[t] = "idle"

\* C7: FrameHandle::wait_rendered on H returns only when H has a bound frame
\* whose state is RENDERED and H.locks >= 1.
C7_Rendezvous ==
  [][\A t \in Waiters :
       WaitReturns(t) =>
         /\ frame'[hof[t]] # NULL
         /\ state'[frame'[hof[t]]] = "RENDERED"
         /\ locks'[hof[t]] >= 1]_vars

\* a waiter has returned from wait_rendered on a handle whose frame had been
\* evicted from another handle
C7_Witness ==
  \E t \in Waiters :
    /\ pc[t] = "idle" /\ result[t] = "rendered"
    /\ \E w \in Workers : hof[w] = hof[t] /\ result[w] = "evicted"

(* ---- C8 ---- *)

\* thread t is inside FrameHandle::wait_rendered
InWait(t) == pc[t] \in {"hw_wait", "hw_woken", "fw_enter", "fw_wait", "fw_woken"}

\* the frame bound to h has been rendered
Rendered(h) == frame[h] # NULL /\ state[frame[h]] = "RENDERED"

Returned(t) == pc[t] = "idle" /\ result[t] = "rendered"

\* C8: waiters blocked in H.wait_rendered all return once another thread has
\* acquired H and called set_rendered (keeping its lock); none returns before
\* the set_rendered, and none returns if H is never acquired.
C8_BlockingWait ==
  /\ \A t \in Waiters : (InWait(t) /\ Rendered(hof[t])) ~> Returned(t)
  /\ [](\A t \in Waiters : Returned(t) => Rendered(hof[t]))

\* two waiters on one handle after the acquire and the set_rendered: one was
\* blocked in the nested frame wait and has been woken, the other was woken on
\* the handle and waits for the handle mutex the first one holds
C8_Witness ==
  \E t, u \in Waiters :
    /\ pc[t] = "hw_woken"
    /\ pc[u] = "fw_woken" /\ Rendered(hof[u])

(* ---- C9 ---- *)

\* thread t holds none of the mutexes
HoldsNothing(t) ==
  /\ mutex_p # t
  /\ \A h \in Handles : mutex_h[h] # t
  /\ \A f \in Frames : mutex_f[f] # t

\* C9: acquire on an unbound handle H2 with the free list empty and freeable
\* non-empty reclaims the head F of freeable from the handle H1 it is bound to:
\* afterwards H2.frame = F, H2.locks = 1, F is LOCKED with handle H2 and on
\* neither list, and H1.frame = null with H1.locks = 0.
C9_Eviction ==
  [][\A t \in Workers :
       \* the pool's decision: the frame taken is the head of freeable
       /\ ( /\ pc[t] = "get_free_frame" /\ pc'[t] # "get_free_frame"
            /\ frame[hof[t]] = NULL
            /\ ListSeq("free") = << >> /\ ListSeq("freeable") # << >> )
          => /\ pc'[t] = "free"
             /\ local'[t] = Head(ListSeq("freeable"))
             /\ handle[local'[t]] \in Handles \ {hof[t]}
             /\ locks[handle[local'[t]]] = 0
       \* Frame::free detaches it from the handle it is bound to
       /\ (pc[t] = "free" /\ pc'[t] = "set_frame")
          => victim'[t] = handle[local[t]]
       \* the acquire returns
       /\ (pc[t] = "lock" /\ local[t] # NULL /\ pc'[t] = "idle")
          => /\ frame'[hof[t]] = local[t]
             /\ locks'[hof[t]] = 1
             /\ state'[local[t]] = "LOCKED"
             /\ handle'[local[t]] = hof[t]
             /\ local[t] \in RentedOut'
             /\ frame'[victim[t]] = NULL
             /\ locks'[victim[t]] = 0
             /\ HoldsNothing(t)'
    ]_vars

\* an acquire has just returned the frame evicted from another handle, the
\* older of two freeable frames
C9_Witness ==
  /\ Quiescent
  /\ \E t \in Workers :
       /\ result[t] = "evicted"
       /\ locks[hof[t]] = 1 /\ state[frame[hof[t]]] = "LOCKED"
       /\ \E h \in Handles \ {hof[t]} : frame[h] = NULL
       /\ \E g \in Frames : state[g] = "FREEABLE"

(* ---- C10 ---- *)

\* C10: acquire on an unbound handle fails with OutOfFrames iff both lists are
\* empty when the pool decides; a failed acquire leaves the handle with
\* locks = 0 and frame = null, leaves every frame's state, handle and list
\* membership unchanged, and leaves no mutex held.
C10_OutOfFrames ==
  [][\A t \in Workers :
       /\ (pc[t] = "get_free_frame" /\ pc'[t] # "get_free_frame")
          => ( result'[t] = "OutOfFrames"
               <=> (ListSeq("free") = << >> /\ ListSeq("freeable") = << >>) )
       /\ (result'[t] = "OutOfFrames" /\ result[t] # "OutOfFrames")
          => /\ pc[t] = "get_free_frame" /\ pc'[t] = "idle"
             /\ locks'[hof[t]] = 0 /\ frame'[hof[t]] = NULL
             /\ held'[t] = held[t]
             /\ state' = state /\ handle' = handle
             /\ first' = first /\ last' = last /\ prev' = prev /\ next' = next
             /\ HoldsNothing(t)'
    ]_vars

\* an acquire has failed with OutOfFrames while another handle's call is in
\* progress
C10_Witness ==
  \E t, u \in Workers :
    /\ result[t] = "OutOfFrames" /\ pc[t] = "idle"
    /\ pc[u] \in {"make_freeable", "set_freeable"}

(* ---- C11 ---- *)

\* C11: resurrection.  An acquire on a handle that is still bound to its frame
\* with locks = 0 takes the resurrecting path and returns with the same frame
\* bound, RENDERED, off the freeable list and locks = 1; between the release and
\* that acquire the binding is only ever undone by an eviction (or by the
\* handle's own unrendered release); an acquire on an unbound handle (after an
\* eviction) asks the pool and returns with a frame that is LOCKED.
C11_Resurrection ==
  [][\A t \in Workers :
       LET h == hof[t] IN
       \* the path is chosen by the binding
       /\ (pc[t] = "idle" /\ pc'[t] = "remove_from_freeable")
          => frame[h] # NULL /\ locks[h] = 0 /\ state[frame[h]] = "FREEABLE"
       /\ (pc[t] = "idle" /\ pc'[t] = "get_free_frame") => frame[h] = NULL
       \* the resurrecting acquire returns
       /\ (pc[t] = "relock" /\ pc'[t] = "idle")
          => /\ frame[h] # NULL /\ frame'[h] = frame[h]
             /\ handle'[frame[h]] = h
             /\ state[frame[h]] = "FREEABLE" /\ state'[frame[h]] = "RENDERED"
             /\ ~ OnList("freeable", frame[h])'
             /\ ~ OnList("free", frame[h])'
             /\ locks'[h] = 1
       \* a binding is undone only by an eviction or an unrendered release
       /\ (frame[h] # NULL /\ frame'[h] # frame[h])
          => /\ frame'[h] = NULL
             /\ \/ pc[t] = "free_locked"
                \/ \E u \in Workers \ {t} :
                     pc[u] = "set_frame" /\ victim[u] = h /\ pc'[u] = "lock"
       \* the acquire after an eviction returns a freshly locked frame
       /\ (pc[t] = "lock" /\ pc'[t] = "idle")
          => /\ state'[frame'[h]] = "LOCKED"
             /\ handle'[frame'[h]] = h
             /\ locks'[h] = 1
    ]_vars

\* a handle has its rendered frame back with one lock, while another handle,
\* whose own frame had been evicted, holds a freshly locked one
C11_Witness ==
  \E t, u \in Workers :
    /\ pc[t] = "idle" /\ result[t] = "resurrected"
    /\ locks[hof[t]] = 1 /\ state[frame[hof[t]]] = "RENDERED"
    /\ pc[u] = "idle" /\ result[u] \in {"fresh", "evicted"}
    /\ state[frame[hof[u]]] = "LOCKED"

(* ---- C12 ---- *)

\* C12: rendered release.  A release that brings H.locks to 0 with H's frame F
\* RENDERED appends F at the tail of the freeable list and leaves the free list
\* alone (make_freeable), then makes F FREEABLE (set_freeable), and keeps
\* H.frame = F and F.handle = H throughout; when it returns F is on the freeable
\* list, unless an evictor has already popped it.  A release that leaves
\* H.locks > 0 changes nothing but the count.
C12_RenderedRelease ==
  [][\A t \in Workers :
       LET h == hof[t]
           f == frame[h]
       IN
       \* locks reaches 0 on a RENDERED frame
       /\ (pc[t] = "idle" /\ pc'[t] = "make_freeable")
          => /\ locks[h] = 1 /\ locks'[h] = 0
             /\ state[f] = "RENDERED" /\ handle[f] = h
             /\ state' = state /\ handle' = handle /\ frame' = frame
             /\ ListSeq("free")' = ListSeq("free")
             /\ ListSeq("freeable")' = ListSeq("freeable")
       \* pool->make_freeable( frame )
       /\ (pc[t] = "make_freeable" /\ pc'[t] = "set_freeable")
          => /\ ListSeq("freeable")' = Append(ListSeq("freeable"), f)
             /\ ListSeq("free")' = ListSeq("free")
             /\ state' = state /\ handle' = handle /\ frame' = frame
             /\ locks' = locks
       \* frame->set_freeable() and return
       /\ (pc[t] = "set_freeable" /\ pc'[t] = "idle")
          => /\ state[f] = "RENDERED"
             /\ state' = [state EXCEPT ![f] = "FREEABLE"]
             /\ frame' = frame /\ handle' = handle /\ handle[f] = h
             /\ locks' = locks /\ locks[h] = 0
             /\ ListSeq("free")' = ListSeq("free")
             /\ ListSeq("freeable")' = ListSeq("freeable")
             /\ \/ OnList("freeable", f)
                \/ \E u \in Workers \ {t} : pc[u] = "free" /\ local[u] = f
             /\ ~ OnList("free", f)
             /\ HoldsNothing(t)'
       \* a release that leaves locks > 0
       /\ (pc[t] = "idle" /\ pc'[t] = "idle" /\ held'[t] < held[t])
          => /\ locks' = [locks EXCEPT ![h] = @ - 1] /\ locks'[h] > 0
             /\ state' = state /\ handle' = handle /\ frame' = frame
             /\ first' = first /\ last' = last /\ prev' = prev /\ next' = next
             /\ mutex_h' = mutex_h /\ mutex_f' = mutex_f /\ mutex_p' = mutex_p
    ]_vars

\* two handles have released their rendered frames: both frames are FREEABLE, in
\* release order on the freeable list, and still bound to their handles
C12_Witness ==
  /\ Quiescent
  /\ Len(ListSeq("freeable")) = 2
  /\ \A f \in Frames :
       /\ state[f] = "FREEABLE" /\ handle[f] # NULL
       /\ frame[handle[f]] = f /\ locks[handle[f]] = 0

(* ---- C13 ---- *)

\* C13: unrendered release.  A release that brings H.locks to 0 with H's frame F
\* still LOCKED appends F at the tail of the free list (make_free), then sets
\* F.state = FREE, F.handle = null and H.frame = null (free_locked); when it
\* returns F is on the free list, unless another acquire has already popped it,
\* and F is not on freeable.
C13_UnrenderedRelease ==
  [][\A t \in Workers :
       LET h == hof[t]
           f == frame[h]
       IN
       \* locks reaches 0 on a LOCKED frame
       /\ (pc[t] = "idle" /\ pc'[t] = "make_free")
          => /\ locks[h] = 1 /\ locks'[h] = 0
             /\ state[f] = "LOCKED" /\ handle[f] = h
             /\ state' = state /\ handle' = handle /\ frame' = frame
       \* pool->make_free( frame )
       /\ (pc[t] = "make_free" /\ pc'[t] = "free_locked")
          => /\ ListSeq("free")' = Append(ListSeq("free"), f)
             /\ ListSeq("freeable")' = ListSeq("freeable")
             /\ state' = state /\ handle' = handle /\ frame' = frame
             /\ locks' = locks
       \* frame->free_locked(); frame = NULL; return
       /\ (pc[t] = "free_locked" /\ pc'[t] = "idle")
          => /\ state[f] = "LOCKED"
             /\ state' = [state EXCEPT ![f] = "FREE"]
             /\ handle' = [handle EXCEPT ![f] = NULL]
             /\ frame' = [frame EXCEPT ![h] = NULL]
             /\ locks' = locks /\ locks[h] = 0
             /\ ListSeq("free")' = ListSeq("free")
             /\ ListSeq("freeable")' = ListSeq("freeable")
             /\ \/ OnList("free", f)
                \/ \E u \in Workers \ {t} : pc[u] = "lock" /\ frame[hof[u]] = f
             /\ ~ OnList("freeable", f)
             /\ HoldsNothing(t)'
    ]_vars

\* a handle acquired the first frame and released it unrendered: the frame is
\* FREE and unbound at the tail of the free list, behind the frame that was
\* never taken, and no handle is bound
C13_Witness ==
  /\ Quiescent
  /\ Len(ListSeq("free")) = NumFrames /\ ListSeq("free")[NumFrames] = 1
  /\ \A f \in Frames : state[f] = "FREE" /\ handle[f] = NULL
  /\ \A h \in Handles : frame[h] = NULL /\ locks[h] = 0

(* ---- C14 ---- *)

\* C14: whenever no thread holds the pool mutex, every frame on the freeable list
\* is FREEABLE and every frame on the free list is FREE with handle = null.
C14_Linearizable ==
  mutex_p = NULL =>
    \A f \in Frames :
      /\ OnList("freeable", f) => state[f] = "FREEABLE"
      /\ OnList("free", f) => state[f] = "FREE" /\ handle[f] = NULL

(* ---- C15 ---- *)

\* C15: a thread blocked inside FrameHandle::wait_rendered on H, in the bind wait
\* or in the nested frame wait, does not hold H's mutex while it is blocked (so
\* that an evictor's H.set_frame(null) can complete).
C15_WaiterReleasesHandleMutex ==
  \A t \in Waiters :
    pc[t] \in {"hw_wait", "fw_wait"} => mutex_h[hof[t]] # t

(* ---- C16 ---- *)

\* thread t has passed the bind-wait loop of FrameHandle::wait_rendered and has
\* not returned yet
PastBindWait(t) == pc[t] \in {"fw_enter", "fw_wait", "fw_woken"}

\* C16: from the moment a thread in H.wait_rendered has seen H.frame = F until
\* it returns, H.frame stays F and F.handle stays H.
C16_BindingStable ==
  [][\A t \in Waiters :
       PastBindWait(t) =>
         /\ frame[hof[t]] # NULL
         /\ handle[frame[hof[t]]] = hof[t]
         /\ frame'[hof[t]] = frame[hof[t]]
         /\ handle'[frame[hof[t]]] = hof[t]
         /\ mutex_h[hof[t]] = t
    ]_vars

\* a waiter is in the nested wait on a FREEABLE frame and an evictor that has
\* popped that frame is held up in set_frame
C16_Witness ==
  \E t \in Waiters, u \in Workers :
    /\ pc[t] = "fw_wait" /\ state[frame[hof[t]]] = "FREEABLE"
    /\ pc[u] = "set_frame" /\ victim[u] = hof[t] /\ local[u] = frame[hof[t]]

(* ---- C17 ---- *)

\* the step changes the state of f by one of the six transitions, made by the
\* thread that is in the transition's trigger on f
LegalTransition(f) ==
  \E t \in Workers :
    LET h == hof[t] IN
    \/ /\ state[f] = "FREE" /\ state'[f] = "LOCKED"
       /\ pc[t] = "lock" /\ pc'[t] = "idle" /\ frame[h] = f
    \/ /\ state[f] = "LOCKED" /\ state'[f] = "RENDERED"
       /\ pc[t] = "idle" /\ pc'[t] = "idle" /\ frame[h] = f
       /\ held[t] > 0 /\ held'[t] = held[t]
    \/ /\ state[f] = "LOCKED" /\ state'[f] = "FREE"
       /\ pc[t] = "free_locked" /\ pc'[t] = "idle" /\ frame[h] = f
    \/ /\ state[f] = "RENDERED" /\ state'[f] = "FREEABLE"
       /\ pc[t] = "set_freeable" /\ pc'[t] = "idle" /\ frame[h] = f
    \/ /\ state[f] = "FREEABLE" /\ state'[f] = "RENDERED"
       /\ pc[t] = "relock" /\ pc'[t] = "idle" /\ frame[h] = f
    \/ /\ state[f] = "FREEABLE" /\ state'[f] = "FREE"
       /\ pc[t] = "set_frame" /\ pc'[t] = "lock" /\ local[t] = f

\* C17: every change of a frame's state is one of the six legal transitions,
\* made by its own trigger; a trigger completes only from its source state, and
\* a failed assertion changes no frame's state or handle.
C17_LegalTransitions ==
  [][/\ \A f \in Frames : state'[f] # state[f] => LegalTransition(f)
     /\ fault' # fault => state' = state /\ handle' = handle
     /\ \A t \in Workers :
          LET f == frame[hof[t]] IN
          /\ (pc[t] = "lock" /\ pc'[t] = "idle")
             => state[f] = "FREE" /\ handle[f] = NULL
          /\ (pc[t] = "free_locked" /\ pc'[t] = "idle") => state[f] = "LOCKED"
          /\ (pc[t] = "set_freeable" /\ pc'[t] = "idle") => state[f] = "RENDERED"
          /\ (pc[t] = "relock" /\ pc'[t] = "idle") => state[f] = "FREEABLE"
          /\ (pc[t] = "free" /\ pc'[t] = "set_frame")
             => state[local[t]] = "FREEABLE"
    ]_vars

\* Frame::free was invoked on a frame that is still RENDERED: the assertion has
\* failed and the frame is still RENDERED and bound
C17_Witness ==
  /\ fault = "free: state == FREEABLE"
  /\ \E t \in Workers :
       /\ pc[t] = "free" /\ state[local[t]] = "RENDERED"
       /\ handle[local[t]] # NULL /\ frame[handle[local[t]]] = local[t]

(* ---- C18 ---- *)

\* thread t is evicting f: it has popped f from freeable and is in Frame::free
Evicting(t, f) == pc[t] \in {"free", "set_frame"} /\ local[t] = f

\* thread t is resurrecting f: it has unlinked f and is about to relock it
Resurrecting(t, f) == pc[t] = "relock" /\ frame[hof[t]] = f

\* no frame is both unlinked by a resurrecting acquire and popped by an evicting
\* acquire, nor popped by two evicting acquires
OneTaker ==
  \A f \in Frames :
    Cardinality({t \in Workers : Evicting(t, f) \/ Resurrecting(t, f)}) <= 1

\* C18: eviction and resurrection are mutually exclusive per frame: a frame is
\* never both unlinked by a resurrecting acquire and popped by an evicting one,
\* remove_from_freeable is only applied to a frame that is on the freeable list,
\* and a FREEABLE frame leaves that state by the one acquire that took it off
\* the list.
C18_EvictXorResurrect ==
  [][/\ OneTaker /\ OneTaker'
     /\ \A t \in Workers :
          LET f == frame[hof[t]] IN
          /\ (pc[t] = "remove_from_freeable" /\ pc'[t] = "relock")
             => /\ Occurrences("freeable", f) = 1
                /\ state[f] = "FREEABLE"
                /\ ~ OnList("freeable", f)'
          /\ (pc[t] = "relock" /\ pc'[t] = "idle")
             => ~ \E u \in Workers : Evicting(u, f)
          /\ (pc[t] = "set_frame" /\ pc'[t] = "lock")
             => ~ \E u \in Workers : Resurrecting(u, local[t])
    ]_vars

\* the two meet: a resurrecting acquire has passed its FREEABLE test and waits
\* for the pool mutex while an evicting acquire has popped the same frame
C18_Witness ==
  \E t, u \in Workers :
    /\ pc[t] = "remove_from_freeable"
    /\ Evicting(u, frame[hof[t]])

(* ---- C19 ---- *)

\* the FrameQueue operations on their own, on queues of up to MaxQueue frames
QueueFrames == 1..MaxQueue

EmptyQueue ==
  [first |-> [q \in Queues |-> NULL], last |-> [q \in Queues |-> NULL],
   prev |-> [f \in QueueFrames |-> NULL], next |-> [f \in QueueFrames |-> NULL]]

\* the queue obtained by add() of the frames of s in order
RECURSIVE QueueOf(_, _)
QueueOf(s, q) ==
  IF s = << >> THEN EmptyQueue
  ELSE FrameQueue_add(QueueOf(SubSeq(s, 1, Len(s) - 1), q), q, s[Len(s)])

RECURSIVE Follow(_, _, _)
Follow(L, f, n) ==
  IF f = NULL \/ n = 0 THEN << >> ELSE << f >> \o Follow(L, L.next[f], n - 1)

RECURSIVE FollowBack(_, _, _)
FollowBack(L, f, n) ==
  IF f = NULL \/ n = 0 THEN << >> ELSE FollowBack(L, L.prev[f], n - 1) \o << f >>

\* a queue's frames read from first along next, and from last along prev
Contents(L, q) == Follow(L, L.first[q], MaxQueue + 1)

ContentsBack(L, q) == FollowBack(L, L.last[q], MaxQueue + 1)

\* s without its i-th element
Without(s, i) == SubSeq(s, 1, i - 1) \o SubSeq(s, i + 1, Len(s))

\* the orders in which distinct frames can stand in a queue
Orders ==
  {s \in UNION {[1..n -> QueueFrames] : n \in 0..MaxQueue} :
     \A i, j \in 1..Len(s) : i # j => s[i] # s[j]}

\* add appends at the tail, remove takes the head (or nothing from an empty
\* queue), remove_specific takes the given member and keeps the order of the
\* others
QueueLaws ==
  \A s \in Orders, q \in Queues :
    LET L == QueueOf(s, q) IN
    /\ Contents(L, q) = s /\ ContentsBack(L, q) = s
    /\ IF s = << >>
         THEN L.first[q] = NULL /\ FrameQueue_remove(L, q) = L
         ELSE /\ L.first[q] = Head(s)
              /\ Contents(FrameQueue_remove(L, q), q) = Tail(s)
              /\ ContentsBack(FrameQueue_remove(L, q), q) = Tail(s)
    /\ \A i \in 1..Len(s) :
         LET R == FrameQueue_remove_specific(L, q, s[i]) IN
         /\ Contents(R, q) = Without(s, i)
         /\ ContentsBack(R, q) = Without(s, i)
         /\ R.prev[s[i]] = NULL /\ R.next[s[i]] = NULL

\* the step leaves list q alone, appends one frame at its tail, pops its head,
\* or unlinks one member keeping the order of the others
QueueStep(q) ==
  \/ ListSeq(q)' = ListSeq(q)
  \/ \E f \in Frames : ~ OnList(q, f) /\ ListSeq(q)' = Append(ListSeq(q), f)
  \/ ListSeq(q) # << >> /\ ListSeq(q)' = Tail(ListSeq(q))
  \/ \E i \in 1..Len(ListSeq(q)) : ListSeq(q)' = Without(ListSeq(q), i)

\* C19: allocation is FIFO.  Each list is a queue (add appends at the tail,
\* remove pops the head, remove_specific unlinks one member and keeps the order of
\* the others), so the head of a list is the frame that has been on it longest;
\* get_free_frame takes the head of free whenever free is non-empty, and
\* otherwise, and only then, evicts the head of freeable.
C19_Fifo ==
  [][/\ QueueLaws
     /\ \A q \in Queues : QueueStep(q)
     /\ \A t \in Workers :
          /\ (pc[t] = "get_free_frame" /\ pc'[t] = "lock")
             => /\ ListSeq("free") # << >>
                /\ frame'[hof[t]] = Head(ListSeq("free"))
                /\ ListSeq("free")' = Tail(ListSeq("free"))
                /\ ListSeq("freeable")' = ListSeq("freeable")
          /\ (pc[t] = "get_free_frame" /\ pc'[t] = "free")
             => /\ ListSeq("free") = << >>
                /\ ListSeq("freeable") # << >>
                /\ local'[t] = Head(ListSeq("freeable"))
                /\ ListSeq("freeable")' = Tail(ListSeq("freeable"))
                /\ ListSeq("free")' = << >>
          /\ (pc[t] = "set_frame" /\ pc'[t] = "lock")
             => frame'[hof[t]] = local[t]
          /\ (pc[t] = "remove_from_freeable" /\ pc'[t] = "relock")
             => \E i \in 1..Len(ListSeq("freeable")) :
                  /\ ListSeq("freeable")[i] = frame[hof[t]]
                  /\ ListSeq("freeable")' = Without(ListSeq("freeable"), i)
    ]_vars

\* with the free list empty an acquire has popped the older of two freeable
\* frames and left the younger one on the list
C19_Witness ==
  \E t \in Workers :
    /\ pc[t] = "free"
    /\ ListSeq("free") = << >>
    /\ Len(ListSeq("freeable")) = 1
    /\ state[local[t]] = "FREEABLE"
    /\ state[Head(ListSeq("freeable"))] = "FREEABLE"

(* ---- C20 ---- *)

\* C20: at every instant no frame is referenced by the frame field of two
\* distinct handles.
C20_ExclusiveBinding ==
  \A h1, h2 \in Handles :
    (h1 # h2 /\ frame[h1] # NULL) => frame[h1] # frame[h2]

====
